---- MODULE Spec2Model ----
(***************************************************************************)
(* A model of the goal-oriented action planner: State/Model application,   *)
(* Goal scoring and the six search strategies of Planner::plan.            *)
(*                                                                         *)
(* Numbers.  Property values, durations and deltas are integers.  f32      *)
(* values are modelled exactly instead of rounded: a rational is a pair    *)
(* <<n, d>> in lowest terms with d > 0, and an f32 is a record             *)
(*     [w, h, r, e]   standing for   h * (1/1e-6) + r + e * 1e-6           *)
(* with h, r, e rationals (the expansion of the value in powers of the     *)
(* constant 1e-6 that the cost formulas add to an efficiency), and w a     *)
(* tag for the values outside that field: -2 = -inf, -1 = f32::MIN,        *)
(* 1 = f32::MAX, 2 = +inf, 9 = NaN (all other fields zero then).           *)
(***************************************************************************)
EXTENDS Integers, Sequences, FiniteSets, TLC

VARIABLES
    algorithm,   \* Planner.algorithm
    solution,    \* Planner.solution
    max_depth,   \* Planner.max_depth
    actions,     \* Planner.actions : label -> Action
    order,       \* iteration order of the HashMap Planner.actions
    model,       \* the Model handed to plan / the receiver of Model::apply
    frontier,    \* fast_*_plan: the BinaryHeap's backing vector
    visited,     \* fast_*_plan: HashMap<State, f32>
    result,      \* what the last call returned (None before any call)
    pc,          \* position of the caller
    tables,      \* two States as HashMaps: content and iteration order of each
    heap         \* the memory behind a tree of Models: the HashMaps and Vecs they own

vars == <<algorithm, solution, max_depth, actions, order, model,
          frontier, visited, result, pc, tables, heap>>

\* Option<T>: None is the empty tuple, Some(x) the one-element tuple
None == <<>>
Some(x) == <<x>>
Unwrap(o) == o[1]

\* ------------------------------------------------------------ bounds
MaxDepth == 4
MaxVal == 1
MaxActions == 2
MaxChain == 2

\* ------------------------------------------------------------ rationals
Abs(x) == IF x < 0 THEN -x ELSE x

RECURSIVE Gcd(_, _)
Gcd(a, b) == IF b = 0 THEN a ELSE Gcd(b, a % b)

Rat(n, d) ==
    LET s == IF d < 0 THEN -1 ELSE 1
        g == Gcd(Abs(n), Abs(d))
    IN  <<(s * n) \div g, (s * d) \div g>>

RZero == <<0, 1>>
RInt(i) == <<i, 1>>
RAdd(a, b) == Rat(a[1] * b[2] + b[1] * a[2], a[2] * b[2])
RNeg(a) == <<-a[1], a[2]>>
RSub(a, b) == RAdd(a, RNeg(b))
RMul(a, b) == Rat(a[1] * b[1], a[2] * b[2])
RDiv(a, b) == Rat(a[1] * b[2], a[2] * b[1])
RLess(a, b) == a[1] * b[2] < b[1] * a[2]

\* ------------------------------------------------------------ f32
F32(r) == [w |-> 0, h |-> RZero, r |-> r, e |-> RZero]
Tagged(w) == [w |-> w, h |-> RZero, r |-> RZero, e |-> RZero]
F32_MIN == Tagged(-1)
F32_MAX == Tagged(1)
NegInf == Tagged(-2)
PosInf == Tagged(2)
NaN == Tagged(9)
FZero == F32(RZero)
\* the literal 1e-6
Eps6 == [w |-> 0, h |-> RZero, r |-> RZero, e |-> RInt(1)]
\* f32::EPSILON = 2^-23 = 0.1192...e-6
F32_EPSILON == [w |-> 0, h |-> RZero, r |-> RZero, e |-> <<119, 1000>>]

IsNaN(x) == x.w = 9

FAdd(x, y) ==
    IF IsNaN(x) \/ IsNaN(y) THEN NaN
    ELSE IF x.w # 0 /\ y.w # 0
         THEN IF (x.w < 0) = (y.w < 0)
              THEN (IF Abs(x.w) >= Abs(y.w) THEN x ELSE y)
              ELSE (IF Abs(x.w) = 2 /\ Abs(y.w) = 2 THEN NaN
                    ELSE IF Abs(x.w) > Abs(y.w) THEN x
                    ELSE IF Abs(y.w) > Abs(x.w) THEN y ELSE FZero)
    ELSE IF x.w # 0 THEN x
    ELSE IF y.w # 0 THEN y
    ELSE [w |-> 0, h |-> RAdd(x.h, y.h), r |-> RAdd(x.r, y.r), e |-> RAdd(x.e, y.e)]

FNeg(x) ==
    IF IsNaN(x) THEN NaN
    ELSE [w |-> -x.w, h |-> RNeg(x.h), r |-> RNeg(x.r), e |-> RNeg(x.e)]

FSub(x, y) == FAdd(x, FNeg(y))

\* x < y; every comparison with NaN is false
FLess(x, y) ==
    /\ ~IsNaN(x)
    /\ ~IsNaN(y)
    /\ \/ x.w < y.w
       \/ /\ x.w = y.w
          /\ \/ RLess(x.h, y.h)
             \/ x.h = y.h /\ RLess(x.r, y.r)
             \/ x.h = y.h /\ x.r = y.r /\ RLess(x.e, y.e)

FEq(x, y) == ~IsNaN(x) /\ ~IsNaN(y) /\ x = y
FLeq(x, y) == FLess(x, y) \/ FEq(x, y)

\* 1.0 / x, to first order in 1e-6
FInv(x) ==
    IF IsNaN(x) THEN NaN
    ELSE IF x.w # 0 THEN FZero
    ELSE IF x.h # RZero
         THEN [w |-> 0, h |-> RZero, r |-> RZero, e |-> RDiv(RInt(1), x.h)]
    ELSE IF x.r # RZero
         THEN [w |-> 0, h |-> RZero, r |-> RDiv(RInt(1), x.r),
               e |-> RNeg(RDiv(x.e, RMul(x.r, x.r)))]
    ELSE IF x.e # RZero
         THEN [w |-> 0, h |-> RDiv(RInt(1), x.e), r |-> RZero, e |-> RZero]
    ELSE PosInf

\* x * q for a rational q
FMulRat(x, q) ==
    IF IsNaN(x) THEN NaN
    ELSE IF x.w # 0
         THEN (IF q = RZero THEN NaN ELSE IF RLess(q, RZero) THEN Tagged(-x.w) ELSE x)
    ELSE [w |-> 0, h |-> RMul(x.h, q), r |-> RMul(x.r, q), e |-> RMul(x.e, q)]

\* x / i for an integer i # 0
FDivInt(x, i) ==
    IF x.w # 0 THEN x
    ELSE [w |-> 0, h |-> RDiv(x.h, RInt(i)), r |-> RDiv(x.r, RInt(i)),
          e |-> RDiv(x.e, RInt(i))]

Max(a, b) == IF a >= b THEN a ELSE b

\* ------------------------------------------------------------ State
\* State(HashMap<String, i32>): a function from the keys present to values
Props == {"wood", "gold"}

Get(state, key) == IF key \in DOMAIN state THEN state[key] ELSE 0

Insert(state, key, value) ==
    [k \in DOMAIN state \cup {key} |-> IF k = key THEN value ELSE state[k]]

\* State::apply without the "new_val < 0" return
RECURSIVE ApplyLoopUnchecked(_, _, _)
ApplyLoopUnchecked(new_props, deltas, keyOrder) ==
    IF keyOrder = <<>> THEN Some(new_props)
    ELSE LET key == Head(keyOrder)
             new_val == Get(new_props, key) + deltas[key]
         IN  ApplyLoopUnchecked(Insert(new_props, key, new_val), deltas, Tail(keyOrder))

\* State::apply handing back the map as updated so far when a delta fails
RECURSIVE ApplyLoopPartial(_, _, _)
ApplyLoopPartial(new_props, deltas, keyOrder) ==
    IF keyOrder = <<>> THEN Some(new_props)
    ELSE LET key == Head(keyOrder)
             new_val == Get(new_props, key) + deltas[key]
         IN  IF new_val < 0 THEN Some(new_props)
             ELSE ApplyLoopPartial(Insert(new_props, key, new_val), deltas, Tail(keyOrder))

\* the loop of State::apply over action.deltas, visited in the order keyOrder
RECURSIVE ApplyLoop(_, _, _)
ApplyLoop(new_props, deltas, keyOrder) ==
    IF keyOrder = <<>> THEN Some(new_props)
    ELSE LET key == Head(keyOrder)
             old_val == Get(new_props, key)
             new_val == old_val + deltas[key]
         IN  IF new_val < 0 THEN None
             ELSE ApplyLoop(Insert(new_props, key, new_val), deltas, Tail(keyOrder))

\* all orders in which a HashMap with key set S can be iterated
Orders(S) ==
    {s \in [1..Cardinality(S) -> S] : \A i, j \in 1..Cardinality(S) : s[i] = s[j] => i = j}

StateApplyIn(state, action, keyOrder) == ApplyLoop(state, action.deltas, keyOrder)

\* the order in which one HashMap with key set S is iterated
RECURSIVE IterOrder(_)
IterOrder(S) ==
    IF S = {} THEN <<>>
    ELSE LET k == CHOOSE x \in S : TRUE
         IN  <<k>> \o IterOrder(S \ {k})

StateApply(state, action) ==
    StateApplyIn(state, action, IterOrder(DOMAIN action.deltas))

\* ------------------------------------------------------------ Goal
\* (n as f32 / d as f32) * weight for integers n, d and a rational weight
FRatio(n, d, weight) ==
    IF d # 0 THEN F32(RMul(Rat(n, d), weight))
    ELSE IF n = 0 \/ weight = RZero THEN NaN
    ELSE IF (n < 0) = RLess(weight, RZero) THEN PosInf ELSE NegInf

\* Goal::discontentment on the value Model::calculate_discontentment hands it
Discontentment(goal, current_value) ==
    IF goal.kind = "StayAbove"
    THEN IF current_value < goal.target
         THEN FRatio(Max(goal.target - current_value, 0), goal.target, goal.weight)
         ELSE FZero
    ELSE IF current_value > goal.target
         THEN FRatio(Max(current_value - goal.target, 0), goal.target, goal.weight)
         ELSE FZero

\* ------------------------------------------------------------ Model
NewModel(state, goals) ==
    [time |-> 0, state |-> state, goals |-> goals, action_history |-> <<>>]

\* Model::apply that pushes the action but leaves time as it was
ModelApplyInStale(m, action, keyOrder) ==
    LET next_state == ApplyLoop(m.state, action.deltas, keyOrder)
    IN  IF next_state # None
        THEN Some([time |-> m.time,
                   state |-> Unwrap(next_state),
                   goals |-> m.goals,
                   action_history |-> Append(m.action_history, action)])
        ELSE None

\* Model::apply, State::apply walking the deltas in keyOrder
ModelApplyIn(m, action, keyOrder) ==
    LET next_state == StateApplyIn(m.state, action, keyOrder)
    IN  IF next_state # None
        THEN Some([time |-> m.time + action.duration,
                   state |-> Unwrap(next_state),
                   goals |-> m.goals,
                   action_history |-> Append(m.action_history, action)])
        ELSE None

ModelApply(m, action) == ModelApplyIn(m, action, IterOrder(DOMAIN action.deltas))

RECURSIVE SumGoals(_, _, _)
SumGoals(m, names, total) ==
    IF names = <<>> THEN total
    ELSE LET name == Head(names)
             current_value == Get(m.state, name)
         IN  SumGoals(m, Tail(names),
                      FAdd(total, Discontentment(m.goals[name], current_value)))

CalculateDiscontentment(m) ==
    SumGoals(m, IterOrder(DOMAIN m.goals), FZero)

\* ------------------------------------------------------------ BinaryHeap<AStarNode>
\* Ord for AStarNode compares estimated_total in reverse: a <= b unless a's
\* estimated_total is strictly smaller (an undecided partial_cmp counts as Equal)
NodeLeq(a, b) == ~FLess(a.estimated_total, b.estimated_total)

\* data is 1-based, the positions below are the 0-based ones of the vector
RECURSIVE SiftUp(_, _, _, _)
SiftUp(data, start, pos, elt) ==
    IF pos > start
    THEN LET parent == (pos - 1) \div 2
         IN  IF NodeLeq(elt, data[parent + 1])
             THEN [data EXCEPT ![pos + 1] = elt]
             ELSE SiftUp([data EXCEPT ![pos + 1] = data[parent + 1]], start, parent, elt)
    ELSE [data EXCEPT ![pos + 1] = elt]

HeapPush(data, item) == SiftUp(Append(data, item), 0, Len(data), item)

RECURSIVE SiftDownToBottom(_, _, _)
SiftDownToBottom(data, pos, elt) ==
    LET end == Len(data)
        child == 2 * pos + 1
    IN  IF child <= Max(end - 2, 0) /\ end >= 2
        THEN LET c == IF NodeLeq(data[child + 1], data[child + 2]) THEN child + 1 ELSE child
             IN  SiftDownToBottom([data EXCEPT ![pos + 1] = data[c + 1]], c, elt)
        ELSE IF child = end - 1
             THEN SiftUp([data EXCEPT ![pos + 1] = data[child + 1]], 0, child, elt)
             ELSE SiftUp(data, 0, pos, elt)

\* BinaryHeap::peek in place of pop: the minimum stays in the heap
HeapPeek(data) == [item |-> data[1], data |-> data]

\* BinaryHeap::pop on a non-empty heap: [item, data]
HeapPop(data) ==
    LET last == data[Len(data)]
        rest == SubSeq(data, 1, Len(data) - 1)
    IN  IF rest = <<>> THEN [item |-> last, data |-> rest]
        ELSE [item |-> rest[1], data |-> SiftDownToBottom(rest, 0, last)]

\* ------------------------------------------------------------ Planner, Fast
Plan(total_discontentment, total_time, acts) ==
    [total_discontentment |-> total_discontentment,
     total_time |-> total_time,
     actions |-> acts]

\* the frontier entry the three fast_*_plan functions start from
StartNode(alg, start_model) ==
    LET start_discontent == CalculateDiscontentment(start_model)
        start_h == CalculateDiscontentment(start_model)
    IN  [cost_so_far |-> IF alg = "Traditional" THEN start_discontent ELSE FZero,
         estimated_total |-> IF alg = "Traditional"
                             THEN FAdd(start_discontent, start_h) ELSE start_h,
         time |-> 0,
         model |-> start_model,
         plan |-> <<>>]

\* discontent_delta / action.duration.max(1)
Efficiency(from_score, to_score, action) ==
    FDivInt(FSub(from_score, to_score), Max(action.duration, 1))

\* 1.0 / (efficiency + 1e-6)
InverseEfficiency(efficiency) == FInv(FAdd(efficiency, Eps6))

PointOne == F32(<<1, 10>>)

\* the g-cost of the child reached from node by action
EdgeCost(alg, node, depth_so_far, next_model, action) ==
    LET efficiency == Efficiency(CalculateDiscontentment(node.model),
                                 CalculateDiscontentment(next_model), action)
        use_efficiency == depth_so_far > 2 /\ FLess(PointOne, efficiency)
    IN  IF alg = "Traditional" THEN CalculateDiscontentment(next_model)
        ELSE IF alg = "Efficient" THEN InverseEfficiency(efficiency)
        ELSE IF use_efficiency THEN InverseEfficiency(efficiency)
        ELSE CalculateDiscontentment(next_model)

\* an expansion that also pushes a child for an action that does not apply,
\* its deltas taken all the same
RECURSIVE ExpandUnfiltered(_, _, _, _, _, _)
ExpandUnfiltered(alg, acts, ord, node, vis, front) ==
    IF ord = <<>> THEN front
    ELSE LET label == Head(ord)
             action == acts[label]
             next == ModelApply(node.model, action)
             next_model == IF next = None
                           THEN [node.model EXCEPT
                                    !.time = @ + action.duration,
                                    !.state = Unwrap(ApplyLoopUnchecked(@, action.deltas,
                                                  IterOrder(DOMAIN action.deltas))),
                                    !.action_history = Append(@, action)]
                           ELSE Unwrap(next)
             new_g == FAdd(node.cost_so_far,
                           EdgeCost(alg, node, Len(node.plan), next_model, action))
         IN  IF next_model.state \notin DOMAIN vis \/ FLess(new_g, vis[next_model.state])
             THEN ExpandUnfiltered(alg, acts, Tail(ord), node, vis,
                      HeapPush(front,
                               [cost_so_far |-> new_g,
                                estimated_total |->
                                    FAdd(new_g, CalculateDiscontentment(next_model)),
                                time |-> node.time + action.duration,
                                model |-> next_model,
                                plan |-> Append(node.plan, <<label, action>>)]))
             ELSE ExpandUnfiltered(alg, acts, Tail(ord), node, vis, front)

\* "for (label, action) in &self.actions": the pushes of one expansion
RECURSIVE Expand(_, _, _, _, _, _)
Expand(alg, acts, ord, node, vis, front) ==
    IF ord = <<>> THEN front
    ELSE LET label == Head(ord)
             action == acts[label]
             next == ModelApply(node.model, action)
         IN  IF next = None THEN Expand(alg, acts, Tail(ord), node, vis, front)
             ELSE LET next_model == Unwrap(next)
                      new_g == FAdd(node.cost_so_far,
                                    EdgeCost(alg, node, Len(node.plan), next_model, action))
                      new_time == node.time + action.duration
                      new_h == CalculateDiscontentment(next_model)
                  IN  IF next_model.state \notin DOMAIN vis
                         \/ FLess(new_g, vis[next_model.state])
                      THEN Expand(alg, acts, Tail(ord), node, vis,
                                  HeapPush(front,
                                           [cost_so_far |-> new_g,
                                            estimated_total |-> FAdd(new_g, new_h),
                                            time |-> new_time,
                                            model |-> next_model,
                                            plan |-> Append(node.plan, <<label, action>>)]))
                      ELSE Expand(alg, acts, Tail(ord), node, vis, front)

\* the popped node is dropped: a smaller g is recorded for its state
Dominated(node, vis) ==
    /\ node.model.state \in DOMAIN vis
    /\ FLess(vis[node.model.state], node.cost_so_far)

\* a termination test that forgets the depth bound
TerminalNoDepth(node, depth) ==
    FLess(CalculateDiscontentment(node.model), F32_EPSILON)

\* a termination test that lets a path grow one action past the bound
TerminalOverDepth(node, depth) ==
    \/ FLess(CalculateDiscontentment(node.model), F32_EPSILON)
    \/ Len(node.plan) > depth

\* the popped node ends the search
Terminal(node, depth) ==
    \/ FLess(CalculateDiscontentment(node.model), F32_EPSILON)
    \/ Len(node.plan) >= depth

\* a loop whose fall-through reports the goals as met
FastIterationZero(alg, depth, acts, ord, start_model, front, vis) ==
    IF front = <<>>
    THEN [ret |-> Some(Plan(FZero, 0, <<>>)), frontier |-> front, visited |-> vis]
    ELSE LET popped == HeapPop(front)
             node == popped.item
         IN  IF Dominated(node, vis)
             THEN [ret |-> None, frontier |-> popped.data, visited |-> vis]
             ELSE IF Terminal(node, depth)
             THEN [ret |-> Some(Plan(CalculateDiscontentment(node.model),
                                     node.time, node.plan)),
                   frontier |-> popped.data, visited |-> vis]
             ELSE LET vis2 == [s \in DOMAIN vis \cup {node.model.state} |->
                                  IF s = node.model.state THEN node.cost_so_far
                                  ELSE vis[s]]
                  IN  [ret |-> None,
                       frontier |-> Expand(alg, acts, ord, node, vis2, popped.data),
                       visited |-> vis2]

\* one turn of "while let Some(node) = frontier.pop()", the fall-through included:
\* [ret, frontier, visited] with ret the Plan returned, or None to go round again
FastIteration(alg, depth, acts, ord, start_model, front, vis) ==
    IF front = <<>>
    THEN [ret |-> Some(Plan(CalculateDiscontentment(start_model), 0, <<>>)),
          frontier |-> front, visited |-> vis]
    ELSE LET popped == HeapPop(front)
             node == popped.item
         IN  IF Dominated(node, vis)
             THEN [ret |-> None, frontier |-> popped.data, visited |-> vis]
             ELSE IF Terminal(node, depth)
             THEN [ret |-> Some(Plan(CalculateDiscontentment(node.model),
                                     node.time, node.plan)),
                   frontier |-> popped.data, visited |-> vis]
             ELSE LET vis2 == [s \in DOMAIN vis \cup {node.model.state} |->
                                  IF s = node.model.state THEN node.cost_so_far
                                  ELSE vis[s]]
                  IN  [ret |-> None,
                       frontier |-> Expand(alg, acts, ord, node, vis2, popped.data),
                       visited |-> vis2]

RECURSIVE FastLoop(_, _, _, _, _, _, _)
FastLoop(alg, depth, acts, ord, start_model, front, vis) ==
    LET it == FastIteration(alg, depth, acts, ord, start_model, front, vis)
    IN  IF it.ret # None THEN Unwrap(it.ret)
        ELSE FastLoop(alg, depth, acts, ord, start_model, it.frontier, it.visited)

\* fast_total_plan, fast_efficiency_plan, fast_hybrid_plan
FastPlan(alg, depth, acts, ord, start_model) ==
    FastLoop(alg, depth, acts, ord, start_model,
             HeapPush(<<>>, StartNode(alg, start_model)), <<>>)

\* ------------------------------------------------------------ Planner, Best
\* memo: HashMap<(State, usize), Plan>
MemoInsert(memo, key, res) ==
    [k \in DOMAIN memo \cup {key} |-> IF k = key THEN res ELSE memo[k]]

\* a total that leaves out the duration of the action put in front
TotalTimeOfSub(sub_plan, action) == sub_plan.total_time

\* the time of the plan "action, then sub_plan"
TotalTime(sub_plan, action) == sub_plan.total_time + action.duration

\* an insert at the front that loses the pair
ConsDropped(x, seq) == seq

\* an insert at the front that puts the pair in twice
ConsTwice(x, seq) == <<x, x>> \o seq

Cons(x, seq) == <<x>> \o seq

\* the comparison with the primary test reversed
BetterTotalWorse(sub_plan, action, best_score, best_time) ==
    \/ FLess(best_score, sub_plan.total_discontentment)
    \/ /\ FEq(sub_plan.total_discontentment, best_score)
       /\ sub_plan.total_time + action.duration < best_time

\* the comparison without the tie-break on time
BetterTotalNoTie(sub_plan, action, best_score, best_time) ==
    FLess(sub_plan.total_discontentment, best_score)

\* the comparison that takes every candidate, so that the last one stays
BetterTotalAlways(sub_plan, action, best_score, best_time) == TRUE

\* "Prioritize lower discontentment, then shorter time"
BetterTotal(sub_plan, action, best_score, best_time) ==
    \/ FLess(sub_plan.total_discontentment, best_score)
    \/ /\ FEq(sub_plan.total_discontentment, best_score)
       /\ sub_plan.total_time + action.duration < best_time

\* best_total_plan: [res, memo]; BestTotalLoop is its loop over the actions that
\* are left to visit, acc the locals best_score, best_time, best_plan and the memo
RECURSIVE BestTotalPlan(_, _, _, _, _), BestTotalLoop(_, _, _, _, _, _)
BestTotalLoop(acts, ord, m, depth, rest, acc) ==
    IF rest = <<>> THEN acc
    ELSE LET label == Head(rest)
             action == acts[label]
             next == ModelApply(m, action)
         IN  IF next = None THEN BestTotalLoop(acts, ord, m, depth, Tail(rest), acc)
             ELSE LET sub == BestTotalPlan(acts, ord, Unwrap(next), depth - 1, acc.memo)
                      sub_plan == sub.res
                  IN  IF BetterTotal(sub_plan, action, acc.best_score, acc.best_time)
                      THEN BestTotalLoop(acts, ord, m, depth, Tail(rest),
                               [best_score |-> sub_plan.total_discontentment,
                                best_time |-> TotalTime(sub_plan, action),
                                best_plan |-> Cons(<<label, action>>, sub_plan.actions),
                                memo |-> sub.memo])
                      ELSE BestTotalLoop(acts, ord, m, depth, Tail(rest),
                               [acc EXCEPT !.memo = sub.memo])

BestTotalPlan(acts, ord, m, depth, memo) ==
    LET key == <<m.state, depth>>
    IN  IF key \in DOMAIN memo THEN [res |-> memo[key], memo |-> memo]
        ELSE IF depth = 0
        THEN LET res == Plan(CalculateDiscontentment(m), 0, <<>>)
             IN  [res |-> res, memo |-> MemoInsert(memo, key, res)]
        ELSE LET current_score == CalculateDiscontentment(m)
                 acc == BestTotalLoop(acts, ord, m, depth, ord,
                            [best_score |-> current_score, best_time |-> 0,
                             best_plan |-> <<>>, memo |-> memo])
                 res == Plan(acc.best_score, acc.best_time, acc.best_plan)
             IN  [res |-> res, memo |-> MemoInsert(acc.memo, key, res)]

\* "Pick the path that yields better efficiency"
BetterEfficiency(total_efficiency, total_time, best_efficiency, best_time) ==
    \/ FLess(best_efficiency, total_efficiency)
    \/ FEq(total_efficiency, best_efficiency) /\ total_time < best_time

\* best_efficiency_plan
RECURSIVE BestEfficiencyPlan(_, _, _, _, _), BestEfficiencyLoop(_, _, _, _, _, _)
BestEfficiencyLoop(acts, ord, m, depth, rest, acc) ==
    IF rest = <<>> THEN acc
    ELSE LET label == Head(rest)
             action == acts[label]
             next == ModelApply(m, action)
         IN  IF next = None THEN BestEfficiencyLoop(acts, ord, m, depth, Tail(rest), acc)
             ELSE LET sub == BestEfficiencyPlan(acts, ord, Unwrap(next), depth - 1, acc.memo)
                      sub_plan == sub.res
                      total_discontent_delta ==
                          FSub(CalculateDiscontentment(m), sub_plan.total_discontentment)
                      total_time == TotalTime(sub_plan, action)
                      total_efficiency == FDivInt(total_discontent_delta, Max(total_time, 1))
                  IN  IF BetterEfficiency(total_efficiency, total_time,
                                          acc.best_efficiency, acc.best_time)
                      THEN BestEfficiencyLoop(acts, ord, m, depth, Tail(rest),
                               [best_efficiency |-> total_efficiency,
                                best_time |-> total_time,
                                best_discontent |-> sub_plan.total_discontentment,
                                best_plan |-> Cons(<<label, action>>, sub_plan.actions),
                                memo |-> sub.memo])
                      ELSE BestEfficiencyLoop(acts, ord, m, depth, Tail(rest),
                               [acc EXCEPT !.memo = sub.memo])

BestEfficiencyPlan(acts, ord, m, depth, memo) ==
    LET key == <<m.state, depth>>
    IN  IF key \in DOMAIN memo THEN [res |-> memo[key], memo |-> memo]
        ELSE IF depth = 0
        THEN LET res == Plan(CalculateDiscontentment(m), 0, <<>>)
             IN  [res |-> res, memo |-> MemoInsert(memo, key, res)]
        ELSE LET current_score == CalculateDiscontentment(m)
                 acc == BestEfficiencyLoop(acts, ord, m, depth, ord,
                            [best_efficiency |-> F32_MIN, best_time |-> 0,
                             best_discontent |-> current_score,
                             best_plan |-> <<>>, memo |-> memo])
                 res == Plan(acc.best_discontent, acc.best_time, acc.best_plan)
             IN  [res |-> res, memo |-> MemoInsert(acc.memo, key, res)]

\* "Compare metric to decide best path"
BetterHybrid(metric, sub_plan, action, best_metric, best_time) ==
    \/ FLess(metric, best_metric)
    \/ FEq(metric, best_metric) /\ sub_plan.total_time + action.duration < best_time

\* best_hybrid_plan: the metric of the edge from m to next_model, depth being the
\* parameter of the call, the number of actions still allowed
HybridMetric(depth, m, next_model, action) ==
    LET efficiency == Efficiency(CalculateDiscontentment(m),
                                 CalculateDiscontentment(next_model), action)
        use_efficiency == depth > 2 /\ FLess(PointOne, efficiency)
    IN  IF use_efficiency THEN InverseEfficiency(efficiency)
        ELSE CalculateDiscontentment(next_model)

\* best_hybrid_plan
RECURSIVE BestHybridPlan(_, _, _, _, _), BestHybridLoop(_, _, _, _, _, _)
BestHybridLoop(acts, ord, m, depth, rest, acc) ==
    IF rest = <<>> THEN acc
    ELSE LET label == Head(rest)
             action == acts[label]
             next == ModelApply(m, action)
         IN  IF next = None THEN BestHybridLoop(acts, ord, m, depth, Tail(rest), acc)
             ELSE LET next_model == Unwrap(next)
                      metric == HybridMetric(depth, m, next_model, action)
                      sub == BestHybridPlan(acts, ord, next_model, depth - 1, acc.memo)
                      sub_plan == sub.res
                  IN  IF BetterHybrid(metric, sub_plan, action, acc.best_metric, acc.best_time)
                      THEN BestHybridLoop(acts, ord, m, depth, Tail(rest),
                               [best_metric |-> metric,
                                best_time |-> TotalTime(sub_plan, action),
                                best_plan |-> Cons(<<label, action>>, sub_plan.actions),
                                memo |-> sub.memo])
                      ELSE BestHybridLoop(acts, ord, m, depth, Tail(rest),
                               [acc EXCEPT !.memo = sub.memo])

BestHybridPlan(acts, ord, m, depth, memo) ==
    LET key == <<m.state, depth>>
    IN  IF key \in DOMAIN memo THEN [res |-> memo[key], memo |-> memo]
        ELSE IF depth = 0
        THEN LET res == Plan(CalculateDiscontentment(m), 0, <<>>)
             IN  [res |-> res, memo |-> MemoInsert(memo, key, res)]
        ELSE LET current_score == CalculateDiscontentment(m)
                 acc == BestHybridLoop(acts, ord, m, depth, ord,
                            [best_metric |-> F32_MAX, best_time |-> 0,
                             best_plan |-> <<>>, memo |-> memo])
                 final_discontent ==
                     IF acc.best_metric # F32_MAX
                     THEN FSub(current_score, FInv(acc.best_metric))
                     ELSE current_score
                 res == Plan(final_discontent, acc.best_time, acc.best_plan)
             IN  [res |-> res, memo |-> MemoInsert(acc.memo, key, res)]

\* ------------------------------------------------------------ Planner::plan
PlanOf(alg, sol, depth, acts, ord, m) ==
    IF sol = "Fast" THEN FastPlan(alg, depth, acts, ord, m)
    ELSE IF alg = "Traditional" THEN BestTotalPlan(acts, ord, m, depth, <<>>).res
    ELSE IF alg = "Efficient" THEN BestEfficiencyPlan(acts, ord, m, depth, <<>>).res
    ELSE BestHybridPlan(acts, ord, m, depth, <<>>).res

\* ------------------------------------------------------------ inputs
Algorithms == {"Traditional", "Efficient", "Hybrid"}
Solutions == {"Fast", "Best"}

Action(label, duration, deltas) ==
    [label |-> label, duration |-> duration, deltas |-> deltas]

\* the actions a library is drawn from
Catalogue ==
    [chop |-> Action("chop", 2, [wood |-> 1]),
     burn |-> Action("burn", 1, [wood |-> -1]),
     sell |-> Action("sell", 1, [wood |-> -1, gold |-> 1]),
     rest |-> Action("rest", 0, <<>>)]

Libraries ==
    {[l \in L |-> Catalogue[l]] : L \in {S \in SUBSET DOMAIN Catalogue : Cardinality(S) <= MaxActions}}

Goal(weight, property, target, kind) ==
    [weight |-> weight, property |-> property, target |-> target, kind |-> kind]

\* the goals a goal set is drawn from, per name
GoalChoices ==
    [wood |-> {Goal(RInt(1), "wood", 4, "StayAbove"), Goal(RInt(1), "wood", 1, "StayBelow")},
     gold |-> {Goal(RInt(2), "gold", 1, "StayAbove")}]

GoalSets ==
    UNION {{g \in [N -> UNION {GoalChoices[n] : n \in N}] : \A n \in N : g[n] \in GoalChoices[n]}
           : N \in SUBSET DOMAIN GoalChoices}

States == UNION {[K -> 0..MaxVal] : K \in SUBSET Props}

\* the states a search starts from: gold is still to be earned
StartStates == {st \in States : "gold" \notin DOMAIN st} \cup {[wood |-> 0, gold |-> 0]}

\* ------------------------------------------------------------ Planner::plan, stepwise
Init ==
    /\ algorithm \in Algorithms
    /\ solution \in Solutions
    /\ max_depth \in 0..MaxDepth
    /\ actions \in Libraries
    /\ order \in Orders(DOMAIN actions)
    /\ model \in {NewModel(st, g) : st \in StartStates, g \in GoalSets}
    /\ frontier = <<>>
    /\ visited = <<>>
    /\ result = None
    /\ pc = "start"
    /\ tables = <<>>
    /\ heap = <<>>

\* fast_*_plan up to the loop: the start node is pushed
FastStart ==
    /\ pc = "start"
    /\ solution = "Fast"
    /\ frontier' = HeapPush(<<>>, StartNode(algorithm, model))
    /\ visited' = <<>>
    /\ pc' = "loop"
    /\ UNCHANGED <<heap, tables, algorithm, solution, max_depth, actions, order, model, result>>

\* one turn of the loop of fast_*_plan; the call returns when it.ret is a Plan
FastStep ==
    /\ pc = "loop"
    /\ LET it == FastIteration(algorithm, max_depth, actions, order, model, frontier, visited)
       IN  /\ frontier' = it.frontier
           /\ visited' = it.visited
           /\ result' = it.ret
           /\ pc' = IF it.ret = None THEN "loop" ELSE "done"
    /\ UNCHANGED <<heap, tables, algorithm, solution, max_depth, actions, order, model>>

\* plan under Solution::Best: the whole memoized recursion
BestPlan ==
    /\ pc = "start"
    /\ solution = "Best"
    /\ result' = Some(PlanOf(algorithm, solution, max_depth, actions, order, model))
    /\ pc' = "done"
    /\ UNCHANGED <<heap, tables, algorithm, solution, max_depth, actions, order, model, frontier, visited>>

Next == FastStart \/ FastStep \/ BestPlan

Spec == Init /\ [][Next]_vars

\* ------------------------------------------------------------ chains of Model::apply
DeltaValues == {-2, 1}
DeltaMaps == UNION {[K -> DeltaValues] : K \in SUBSET Props}
ApplyActions == {Action("act", d, dm) : d \in 0..1, dm \in DeltaMaps}
ApplyGoals == [wood |-> Goal(RInt(1), "wood", 4, "StayAbove")]

InitApply ==
    /\ model \in {NewModel(st, ApplyGoals) : st \in States}
    /\ result = None
    /\ pc = "apply"
    /\ algorithm = "Traditional"
    /\ solution = "Best"
    /\ max_depth = 0
    /\ actions = <<>>
    /\ order = <<>>
    /\ frontier = <<>>
    /\ visited = <<>>
    /\ tables = <<>>
    /\ heap = <<>>

\* the caller's "if let Some(next_model) = model.apply(act) { model = next_model }"
Apply ==
    /\ pc = "apply"
    /\ Len(model.action_history) < MaxChain
    /\ \E a \in ApplyActions : \E ko \in Orders(DOMAIN a.deltas) :
          LET r == ModelApplyIn(model, a, ko)
          IN  /\ result' = r
              /\ model' = IF r = None THEN model ELSE Unwrap(r)
    /\ UNCHANGED <<heap, tables, algorithm, solution, max_depth, actions, order, frontier, visited, pc>>

NextApply == Apply

SpecApply == InitApply /\ [][NextApply]_vars

NonNegative(state) == \A k \in DOMAIN state : state[k] >= 0

\* some delta of the action would take its property below zero
Overdraws(state, action) ==
    \E key \in DOMAIN action.deltas : Get(state, key) + action.deltas[key] < 0

\* C2: State::apply never returns a state holding a negative value, in any state
\* reached through a chain of apply calls, and a property that neither the state
\* nor the action's deltas mention reads 0 before and after.
ApplyNeverNegative ==
    /\ NonNegative(model.state)
    /\ \A a \in ApplyActions : \A ko \in Orders(DOMAIN a.deltas) :
          LET r == StateApplyIn(model.state, a, ko)
          IN  r # None =>
                /\ NonNegative(Unwrap(r))
                /\ \A key \in Props :
                      (key \notin DOMAIN model.state /\ key \notin DOMAIN a.deltas)
                          => Get(model.state, key) = 0 /\ Get(Unwrap(r), key) = 0

\* a state reached by an apply, in which one action is refused and some property is absent
ApplyNeverNegativeWitness ==
    /\ pc = "apply"
    /\ model.action_history # <<>>
    /\ \E a \in ApplyActions : StateApply(model.state, a) = None
    /\ \E key \in Props : key \notin DOMAIN model.state

\* C3: State::apply returns None exactly when some delta would take its property
\* (0 if absent) below zero; otherwise every key of deltas maps to old value + delta
\* and every other key keeps its value.  No partly updated state is returned.
ApplyAllOrNothing ==
    \A a \in ApplyActions : \A ko \in Orders(DOMAIN a.deltas) :
        LET r == StateApplyIn(model.state, a, ko)
        IN  /\ (r = None) <=> Overdraws(model.state, a)
            /\ ~Overdraws(model.state, a) =>
                  Unwrap(r) = [k \in DOMAIN model.state \cup DOMAIN a.deltas |->
                                  IF k \in DOMAIN a.deltas
                                  THEN Get(model.state, k) + a.deltas[k]
                                  ELSE model.state[k]]

\* after an apply, an action of two deltas is refused although one of its deltas fits
ApplyAllOrNothingWitness ==
    /\ pc = "apply"
    /\ model.action_history # <<>>
    /\ \E a \in ApplyActions :
          /\ StateApply(model.state, a) = None
          /\ \E k \in DOMAIN a.deltas : Get(model.state, k) + a.deltas[k] >= 0

IsPrefix(s, t) == Len(s) <= Len(t) /\ SubSeq(t, 1, Len(s)) = s

ModelApplyContract ==
    \A a \in ApplyActions : \A ko \in Orders(DOMAIN a.deltas) :
        LET r == ModelApplyIn(model, a, ko)
            st == StateApplyIn(model.state, a, ko)
        IN  /\ (r = None) <=> (st = None)
            /\ r # None =>
                  /\ Unwrap(r).time = model.time + a.duration
                  /\ Unwrap(r).action_history = model.action_history \o <<a>>
                  /\ Unwrap(r).state = Unwrap(st)
                  /\ Unwrap(r).goals = model.goals

\* C4: Model::apply returns None exactly when State::apply fails; on success time is
\* advanced by the duration, the action is appended to the history, the state is the
\* successor and the goals are unchanged.  Along a chain of applies the history only
\* grows (the earlier one is a prefix) and time never decreases.
ModelApplyMonotone ==
    /\ []ModelApplyContract
    /\ [][/\ IsPrefix(model.action_history, model'.action_history)
          /\ model'.time >= model.time
          /\ model'.goals = model.goals]_vars

\* two applies have succeeded and time has advanced
ModelApplyMonotoneWitness ==
    /\ pc = "apply"
    /\ Len(model.action_history) >= 2
    /\ model.time > 0
    /\ result # None

\* ------------------------------------------------------------ claims on Planner::plan
Res == Unwrap(result)

Done == pc = "done"

BestTraditional == solution = "Best" /\ algorithm = "Traditional"

\* the presentation layer's replay of a plan through Model::apply
RECURSIVE Replay(_, _)
Replay(acts, m) ==
    IF acts = <<>> THEN Some(m)
    ELSE LET r == ModelApply(m, acts[1][2])
         IN  IF r = None THEN None ELSE Replay(Tail(acts), Unwrap(r))

\* no action of the sequence overdraws a property at the point where it is taken
RECURSIVE NeverOverdraws(_, _)
NeverOverdraws(acts, state) ==
    \/ acts = <<>>
    \/ /\ ~Overdraws(state, acts[1][2])
       /\ NeverOverdraws(Tail(acts),
              [k \in DOMAIN state \cup DOMAIN acts[1][2].deltas |->
                  Get(state, k) + (IF k \in DOMAIN acts[1][2].deltas
                                   THEN acts[1][2].deltas[k] ELSE 0)])

\* C1: replaying a returned plan from the start Model never yields None: every
\* action is applicable where the plan takes it; and every entry of the frontier
\* holds the Model that replaying its path yields, so no inapplicable action ever
\* contributed an entry.
PlansApplicable ==
    /\ Done => /\ Replay(Res.actions, model) # None
               /\ NeverOverdraws(Res.actions, model.state)
    /\ pc = "loop" =>
          \A i \in 1..Len(frontier) :
              /\ Replay(frontier[i].plan, model) = Some(frontier[i].model)
              /\ NeverOverdraws(frontier[i].plan, model.state)

\* a returned plan holds an action that could not have been taken at the start
PlansApplicableWitness ==
    /\ Done
    /\ \E i \in 1..Len(Res.actions) : ModelApply(model, Res.actions[i][2]) = None

\* C5: under Best/Traditional the returned total_discontentment is at most the
\* start Model's own discontentment.
BestTotalNeverWorse ==
    (Done /\ BestTraditional) =>
        FLeq(Res.total_discontentment, CalculateDiscontentment(model))

\* Best/Traditional returned a plan although some applicable action makes things worse
BestTotalNeverWorseWitness ==
    /\ Done
    /\ BestTraditional
    /\ Res.actions # <<>>
    /\ \E l \in DOMAIN actions :
          /\ ModelApply(model, actions[l]) # None
          /\ FLess(CalculateDiscontentment(model),
                   CalculateDiscontentment(Unwrap(ModelApply(model, actions[l]))))

\* the Models reached by the valid action sequences of length 0..depth
RECURSIVE Reach(_, _, _)
Reach(acts, m, depth) ==
    {m} \cup
    (IF depth = 0 THEN {}
     ELSE UNION {Reach(acts, Unwrap(ModelApply(m, acts[l])), depth - 1) :
                    l \in {x \in DOMAIN acts : ModelApply(m, acts[x]) # None}})

\* the scenario {wood: 0}, goal wood StayAbove 10, chop: duration 1, wood +5,
\* max_depth 3: the plan is [chop, chop] with total_time 2, total_discontentment 0
ChopScenario ==
    LET chop == Action("chop", 1, [wood |-> 5])
        start == NewModel([wood |-> 0], [wood |-> Goal(RInt(1), "wood", 10, "StayAbove")])
    IN  PlanOf("Traditional", "Best", 3, [chop |-> chop], <<"chop">>, start)
            = Plan(FZero, 2, <<<<"chop", chop>>, <<"chop", chop>>>>)

\* C6: under Best/Traditional the returned plan reaches the least final
\* discontentment over all valid action sequences of length 0..max_depth, and the
\* least total time among the sequences that reach it; the plan itself is such a
\* sequence (so in the chop scenario it is [chop, chop]).
BestTotalOptimal ==
    (Done /\ BestTraditional) =>
        LET R == Reach(actions, model, max_depth)
            end == Replay(Res.actions, model)
        IN  /\ ChopScenario
            /\ \A m \in R : FLeq(Res.total_discontentment, CalculateDiscontentment(m))
            /\ \A m \in R : FEq(CalculateDiscontentment(m), Res.total_discontentment)
                               => Res.total_time <= m.time
            /\ Len(Res.actions) <= max_depth
            /\ end # None
            /\ FEq(CalculateDiscontentment(Unwrap(end)), Res.total_discontentment)
            /\ Unwrap(end).time = Res.total_time

\* a longer-lasting sequence reaches the same discontentment as the plan returned
BestTotalOptimalWitness ==
    /\ Done
    /\ BestTraditional
    /\ Res.actions # <<>>
    /\ \E m \in Reach(actions, model, max_depth) :
          /\ FEq(CalculateDiscontentment(m), Res.total_discontentment)
          /\ m.time > Res.total_time

\* C7: under Best/Traditional, for the same start Model and library, the returned
\* total_discontentment does not increase with max_depth.
BestTotalMonotone ==
    (Done /\ BestTraditional) =>
        \A d1 \in 0..max_depth :
            FLeq(Res.total_discontentment,
                 BestTotalPlan(actions, order, model, d1, <<>>).res.total_discontentment)

\* the last unit of depth bought a strictly better result
BestTotalMonotoneWitness ==
    /\ Done
    /\ BestTraditional
    /\ max_depth >= 2
    /\ FLess(Res.total_discontentment,
             BestTotalPlan(actions, order, model, max_depth - 1, <<>>).res.total_discontentment)

\* C8: with an empty goal set every strategy returns the empty plan with
\* total_discontentment 0 and total_time 0.
EmptyGoalsEmptyPlan ==
    (Done /\ DOMAIN model.goals = {}) =>
        /\ Res.actions = <<>>
        /\ FEq(Res.total_discontentment, FZero)
        /\ Res.total_time = 0

\* C9: with max_depth = 0 every strategy returns zero actions, total_time 0 and the
\* start Model's discontentment.
DepthZeroTrivial ==
    (Done /\ max_depth = 0) =>
        /\ Res.actions = <<>>
        /\ Res.total_time = 0
        /\ Res.total_discontentment = CalculateDiscontentment(model)

\* a Fast search at max_depth 0 from an unsatisfied start with an applicable action
DepthZeroTrivialWitness ==
    /\ Done
    /\ max_depth = 0
    /\ solution = "Fast"
    /\ FLess(FZero, CalculateDiscontentment(model))
    /\ \E l \in DOMAIN actions : ModelApply(model, actions[l]) # None

\* C10: plan returns the same Plan whatever the order in which the library's
\* actions are iterated.
PlanDeterministic ==
    Done => \A o \in Orders(DOMAIN actions) :
                PlanOf(algorithm, solution, max_depth, actions, o, model) = Res

\* ------------------------------------------------------------ State as a hash key
\* A HashMap<String, i32> as Eq and Hash see it: map is its content, iter the order
\* in which "for (key, value) in &self.0" walks it.  The planner above keys memo and
\* visited by content alone.
EmptyTable == [map |-> <<>>, iter |-> <<>>]

\* the sequence s with x put in at position pos
InsertAt(s, x, pos) == SubSeq(s, 1, pos - 1) \o <<x>> \o SubSeq(s, pos, Len(s))

\* State::insert: a key already present keeps its bucket; a new key lands in the
\* bucket its hash and the buckets already taken give it, at place pos of the walk
TableInsert(t, key, value, pos) ==
    [map |-> Insert(t.map, key, value),
     iter |-> IF key \in DOMAIN t.map THEN t.iter ELSE InsertAt(t.iter, key, pos)]

\* derived PartialEq: HashMap equality is by content
StateEq(a, b) == a.map = b.map

\* Hash for State: what the Hasher is fed, the pairs in iteration order
StateHash(t) == [i \in 1..Len(t.iter) |-> <<t.iter[i], t.map[t.iter[i]]>>]

\* HashMap<State, _>::get(probe) on a table holding stored: the entry is looked for
\* under the probe's hash and compared with ==
Finds(stored, probe) == StateHash(stored) = StateHash(probe) /\ StateEq(stored, probe)

InitHash ==
    /\ tables = <<EmptyTable, EmptyTable>>
    /\ pc = "hash"
    /\ result = None
    /\ algorithm = "Traditional"
    /\ solution = "Best"
    /\ max_depth = 0
    /\ actions = <<>>
    /\ order = <<>>
    /\ model = NewModel(<<>>, <<>>)
    /\ frontier = <<>>
    /\ visited = <<>>
    /\ heap = <<>>

\* one State::insert on either State
InsertKey ==
    /\ pc = "hash"
    /\ \E i \in 1..2 : \E key \in Props : \E value \in 0..MaxVal :
       \E pos \in 1..(Len(tables[i].iter) + 1) :
          tables' = [tables EXCEPT ![i] = TableInsert(tables[i], key, value, pos)]
    /\ UNCHANGED <<algorithm, solution, max_depth, actions, order, model,
                   frontier, visited, result, pc, heap>>

NextHash == InsertKey

SpecHash == InitHash /\ [][NextHash]_vars

\* C11: two States holding the same (key, value) pairs, built through any insertion
\* order, compare equal and hash identically, so a lookup with one finds the entry
\* stored under the other.
HashPureOfContent ==
    (pc = "hash" /\ tables[1].map = tables[2].map) =>
        /\ StateEq(tables[1], tables[2])
        /\ StateHash(tables[1]) = StateHash(tables[2])
        /\ Finds(tables[1], tables[2])

\* ------------------------------------------------------------ scoring a Model
MaxCur == 2
TargetSpan == 2

ScoreWeights == {RZero, RInt(2)}

\* goals of both kinds, with targets on both sides of zero, filed under any name
ScoreGoals ==
    {Goal(w, p, t, k) : w \in ScoreWeights, p \in Props,
                        t \in (-TargetSpan)..TargetSpan, k \in {"StayAbove", "StayBelow"}}

ScoreGoalSets == UNION {[N -> ScoreGoals] : N \in SUBSET Props}

ScoreStates == UNION {[K -> 0..MaxCur] : K \in SUBSET Props}

InitScore ==
    /\ model \in {NewModel(st, g) : st \in ScoreStates, g \in ScoreGoalSets}
    /\ result = None
    /\ pc = "score"
    /\ algorithm = "Traditional"
    /\ solution = "Best"
    /\ max_depth = 0
    /\ actions = <<>>
    /\ order = <<>>
    /\ frontier = <<>>
    /\ visited = <<>>
    /\ tables = <<>>
    /\ heap = <<>>

\* let start_discontent = start_model.calculate_discontentment()
Score ==
    /\ pc = "score"
    /\ result' = Some(CalculateDiscontentment(model))
    /\ pc' = "scored"
    /\ UNCHANGED <<algorithm, solution, max_depth, actions, order, model,
                   frontier, visited, tables, heap>>

NextScore == Score

SpecScore == InitScore /\ [][NextScore]_vars

Scored == pc = "scored"

\* the value calculate_discontentment hands the goal filed under name
ValueFor(name) == Get(model.state, name)

\* C12: Goal.discontentment is >= 0 for every goal (either kind, targets below, at
\* and above zero, weights >= 0) and every current value.
DiscontentmentNonNegative ==
    Scored => \A name \in DOMAIN model.goals :
                  FLeq(FZero, Discontentment(model.goals[name], ValueFor(name)))

\* the goal's condition holds of value v
Satisfied(goal, v) ==
    IF goal.kind = "StayAbove" THEN v >= goal.target ELSE v <= goal.target

\* the magnitude of the violation: |target - v| when the condition fails
Violation(goal, v) == IF Satisfied(goal, v) THEN 0 ELSE Abs(goal.target - v)

\* C14: for every goal kind (with a positive weight), Goal.discontentment is 0
\* exactly when the current value satisfies the goal's condition, and a value that
\* violates the goal by at least as much scores at least as much.
ZeroIffSatisfiedAndMonotone ==
    Scored => \A name \in DOMAIN model.goals :
                  LET goal == model.goals[name]
                      v == ValueFor(name)
                  IN  RLess(RZero, goal.weight) =>
                        /\ FEq(Discontentment(goal, v), FZero) <=> Satisfied(goal, v)
                        /\ \A v2 \in 0..MaxCur :
                              Violation(goal, v) <= Violation(goal, v2)
                                  => FLeq(Discontentment(goal, v), Discontentment(goal, v2))

\* C15: Goal.discontentment is scale * weight * delta with delta the violation; the
\* Goal of the source carries no scale, so all goals share one: two goals of equal
\* weight whose values violate them by the same delta score the same.
ScaleWeightDelta ==
    Scored => \A n1 \in DOMAIN model.goals : \A n2 \in DOMAIN model.goals :
                  LET g1 == model.goals[n1]
                      g2 == model.goals[n2]
                  IN  (g1.weight = g2.weight
                       /\ Violation(g1, ValueFor(n1)) = Violation(g2, ValueFor(n2)))
                          => Discontentment(g1, ValueFor(n1)) = Discontentment(g2, ValueFor(n2))

\* the sum of the goals' discontentments, each at the value of its own property
RECURSIVE SumOwn(_, _, _)
SumOwn(m, names, total) ==
    IF names = <<>> THEN total
    ELSE LET goal == m.goals[Head(names)]
         IN  SumOwn(m, Tail(names),
                    FAdd(total, Discontentment(goal, Get(m.state, goal.property))))

\* C16: calculate_discontentment is the sum over the goals of each goal's
\* discontentment at the state's value of the goal's own property (0 if absent), and
\* (weights being positive) it is 0 if and only if every goal is satisfied.
TotalOverOwnProperties ==
    (Scored /\ \A name \in DOMAIN model.goals : RLess(RZero, model.goals[name].weight)) =>
        /\ Res = SumOwn(model, IterOrder(DOMAIN model.goals), FZero)
        /\ FEq(Res, FZero) <=>
              \A name \in DOMAIN model.goals :
                  Satisfied(model.goals[name], Get(model.state, model.goals[name].property))

\* ------------------------------------------------------------ plans returned
\* C13: every Plan returned, under each of the six strategies, has
\* total_discontentment >= 0 and total_time >= 0.
PlanFieldsNonNegative ==
    Done => /\ FLeq(FZero, Res.total_discontentment)
            /\ Res.total_time >= 0

\* every action the start Model admits leaves it with strictly more discontentment
EveryActionWorsens ==
    \A l \in DOMAIN actions :
        LET next == ModelApply(model, actions[l])
        IN  next # None => FLess(CalculateDiscontentment(model),
                                 CalculateDiscontentment(Unwrap(next)))

\* C19: under Best with Efficient and Hybrid, the state the returned plan replays to
\* has no more discontentment than the start Model, and when every applicable
\* action strictly worsens discontentment the returned plan is empty.
DoNothingAlwaysAvailable ==
    (Done /\ solution = "Best" /\ algorithm \in {"Efficient", "Hybrid"}) =>
        LET end == Replay(Res.actions, model)
        IN  /\ end # None
            /\ FLeq(CalculateDiscontentment(Unwrap(end)), CalculateDiscontentment(model))
            /\ EveryActionWorsens => Res.actions = <<>>

\* ------------------------------------------------------------ termination
\* plan is one synchronous call: once entered it keeps taking turns until it has
\* returned.  This is WF_vars(Next) with ENABLED <<Next>>_vars written out: a turn
\* can be taken exactly while pc # "done".
Fairness == []<>(pc = "done") \/ []<><<Next>>_vars

SpecLive == Spec /\ Fairness

\* the nodes of a full search tree below a node whose plan has d actions, itself
\* included: each node has at most one child per action of the library
RECURSIVE SubtreeSize(_)
SubtreeSize(d) ==
    IF d >= max_depth THEN 1
    ELSE 1 + Cardinality(DOMAIN actions) * SubtreeSize(d + 1)

\* the nodes the frontier can still give rise to
RECURSIVE Pending(_)
Pending(front) ==
    IF front = <<>> THEN 0
    ELSE SubtreeSize(Len(Head(front).plan)) + Pending(Tail(front))

\* C17: every plan call terminates and returns a Plan, under each of the six
\* strategies, cyclic libraries and negative Efficient/Hybrid edge costs included:
\* the call reaches its return, and every turn of a Fast loop either returns or
\* strictly lowers the number of nodes the frontier can still give rise to.
PlanTerminates ==
    /\ <>Done
    /\ [][pc = "loop" => (pc' = "done" \/ Pending(frontier') < Pending(frontier))]_vars

\* a Fast/Efficient search over an action and its inverse that recorded a negative
\* g and holds a path leading back to the state it started from
PlanTerminatesWitness ==
    /\ Done
    /\ solution = "Fast"
    /\ algorithm = "Efficient"
    /\ DOMAIN actions = {"chop", "burn"}
    /\ \E s \in DOMAIN visited : FLess(visited[s], FZero)
    /\ \E i \in 1..Len(frontier) :
          frontier[i].plan # <<>> /\ frontier[i].model.state = model.state

\* ------------------------------------------------------------ the Fast loop
\* Fast searches from an empty store, where nothing can be spent, and from one with
\* wood to spare, where two routes to one state can be in the frontier together
SpareWood == 3

FastStarts == {<<>>, [wood |-> SpareWood]}

InitFast ==
    /\ algorithm \in Algorithms
    /\ solution = "Fast"
    /\ max_depth \in 0..MaxDepth
    /\ actions \in Libraries
    /\ order \in Orders(DOMAIN actions)
    /\ model \in {NewModel(st, g) : st \in FastStarts, g \in GoalSets}
    /\ frontier = <<>>
    /\ visited = <<>>
    /\ result = None
    /\ pc = "start"
    /\ tables = <<>>
    /\ heap = <<>>

NextFast == FastStart \/ FastStep

SpecFast == InitFast /\ [][NextFast]_vars

\* the Plan a Fast search falls back to
Fallback == Plan(CalculateDiscontentment(model), 0, <<>>)

\* C18: under Fast, when the frontier empties without a popped node meeting the
\* termination condition, plan returns the start Model's discontentment, time 0 and
\* no actions; so it does when no action is applicable in an unsatisfied start state
\* and max_depth > 0.
FastFallback ==
    /\ [][(pc = "loop" /\ frontier = <<>>) => (pc' = "done" /\ result' = Some(Fallback))]_vars
    /\ []((/\ Done
           /\ solution = "Fast"
           /\ max_depth > 0
           /\ ~FLess(CalculateDiscontentment(model), F32_EPSILON)
           /\ \A l \in DOMAIN actions : ModelApply(model, actions[l]) = None)
              => Res = Fallback)

\* a Fast search that expanded two states, ran out of nodes and fell back
FastFallbackWitness ==
    /\ Done
    /\ solution = "Fast"
    /\ frontier = <<>>
    /\ Cardinality(DOMAIN visited) >= 2
    /\ FLess(FZero, CalculateDiscontentment(model))
    /\ Res = Fallback

\* C20: under Fast, a popped node is discarded, neither expanded nor returned,
\* whenever a g better than or equal to its own is recorded in visited for its state.
DominancePruning ==
    [][(/\ pc = "loop"
        /\ frontier # <<>>
        /\ LET node == HeapPop(frontier).item
           IN  /\ node.model.state \in DOMAIN visited
               /\ FLeq(visited[node.model.state], node.cost_so_far))
           => (/\ result' = None
               /\ visited' = visited
               /\ frontier' = HeapPop(frontier).data)]_vars

\* C21: under Fast, the search stops at the first popped node that is not discarded
\* and whose discontentment is below f32::EPSILON or whose path has max_depth
\* actions, and returns that node's discontentment, time and path; a node that is
\* neither is not returned.  So every Fast plan has total_discontentment below
\* f32::EPSILON, or exactly max_depth actions, or is the fallback.
StopsAtFirstTerminal ==
    /\ [][(pc = "loop" /\ frontier # <<>>) =>
            LET node == HeapPop(frontier).item
                score == CalculateDiscontentment(node.model)
            IN  IF /\ ~Dominated(node, visited)
                   /\ (FLess(score, F32_EPSILON) \/ Len(node.plan) >= max_depth)
                THEN pc' = "done" /\ result' = Some(Plan(score, node.time, node.plan))
                ELSE pc' = "loop" /\ result' = None]_vars
    /\ []((Done /\ solution = "Fast") =>
             \/ FLess(Res.total_discontentment, F32_EPSILON)
             \/ Len(Res.actions) = max_depth
             \/ Res = Fallback)

\* a search stopped by the depth bound, with its goals unmet and nodes left over
StopsAtFirstTerminalWitness ==
    /\ Done
    /\ solution = "Fast"
    /\ max_depth >= 2
    /\ Len(Res.actions) = max_depth
    /\ ~FLess(Res.total_discontentment, F32_EPSILON)
    /\ frontier # <<>>

\* ------------------------------------------------------------ the Hybrid metric
\* the metric of an edge whose parent lies depth_so_far actions from the start
MetricByDepthSoFar(depth_so_far, m, next_model, action) ==
    LET efficiency == Efficiency(CalculateDiscontentment(m),
                                 CalculateDiscontentment(next_model), action)
    IN  IF depth_so_far > 2 /\ FLess(PointOne, efficiency)
        THEN InverseEfficiency(efficiency)
        ELSE CalculateDiscontentment(next_model)

\* C22: under Hybrid, in the Fast and in the Best skeleton, the metric of an edge is
\* 1/(efficiency + 1e-6) exactly when more than 2 actions lead from the start to the
\* parent and the edge's efficiency is above 0.1, and the child's discontentment
\* otherwise.
HybridMetricByDepthSoFar ==
    algorithm = "Hybrid" =>
        /\ pc = "loop" =>
              \A i \in 1..Len(frontier) : \A l \in DOMAIN actions :
                  LET node == frontier[i]
                      next == ModelApply(node.model, actions[l])
                  IN  next # None =>
                        EdgeCost(algorithm, node, Len(node.plan), Unwrap(next), actions[l])
                            = MetricByDepthSoFar(Len(node.plan), node.model,
                                                 Unwrap(next), actions[l])
        /\ (Done /\ solution = "Best" /\ max_depth > 0) =>
              \A m \in Reach(actions, model, max_depth - 1) : \A l \in DOMAIN actions :
                  LET depth_so_far == Len(m.action_history)
                      next == ModelApply(m, actions[l])
                  IN  next # None =>
                        HybridMetric(max_depth - depth_so_far, m, Unwrap(next), actions[l])
                            = MetricByDepthSoFar(depth_so_far, m, Unwrap(next), actions[l])

\* ------------------------------------------------------------ Best/Efficient
\* (start discontentment - final discontentment) / max(total time, 1) of the
\* sequence that leads from the start Model to m
RealizedEfficiency(m) ==
    FDivInt(FSub(CalculateDiscontentment(model), CalculateDiscontentment(m)),
            Max(m.time - model.time, 1))

\* C23: under Best/Efficient no valid action sequence of length 1..max_depth has a
\* strictly higher realized efficiency than the returned plan.
BestEfficientOptimal ==
    (Done /\ solution = "Best" /\ algorithm = "Efficient") =>
        LET end == Replay(Res.actions, model)
        IN  /\ end # None
            /\ \A m \in Reach(actions, model, max_depth) :
                  Len(m.action_history) >= 1
                      => ~FLess(RealizedEfficiency(Unwrap(end)), RealizedEfficiency(m))

\* ------------------------------------------------------------ ownership
\* Every HashMap and Vec is an object at an address of heap.objs; a Model of
\* heap.models holds the addresses of the State, the goal map and the history
\* it owns. heap.calls records the apply calls made so far.
MaxCalls == 3

\* the Model at place i of the memory, read through its addresses
Deref(h, i) ==
    [time |-> h.models[i].time,
     state |-> h.objs[h.models[i].state],
     goals |-> h.objs[h.models[i].goals],
     action_history |-> h.objs[h.models[i].action_history]]

\* x.clone() that hands back x itself instead of a copy
CloneAliased(objs, addr) == [objs |-> objs, addr |-> addr]

\* x.clone() for a HashMap or a Vec: a new object with the content of x
Clone(objs, addr) == [objs |-> Append(objs, objs[addr]), addr |-> Len(objs) + 1]

\* the loop of State::apply, inserting into the object at address new_props
RECURSIVE ApplyLoopAt(_, _, _, _)
ApplyLoopAt(objs, new_props, deltas, keyOrder) ==
    IF keyOrder = <<>> THEN [objs |-> objs, ret |-> Some(new_props)]
    ELSE LET key == Head(keyOrder)
             old_val == Get(objs[new_props], key)
             new_val == old_val + deltas[key]
         IN  IF new_val < 0 THEN [objs |-> objs, ret |-> None]
             ELSE ApplyLoopAt([objs EXCEPT ![new_props] = Insert(@, key, new_val)],
                              new_props, deltas, Tail(keyOrder))

\* State::apply on the State at address self
StateApplyAt(objs, self, action, keyOrder) ==
    LET new_props == Clone(objs, self)
    IN  ApplyLoopAt(new_props.objs, new_props.addr, action.deltas, keyOrder)

\* Model::apply on the Model at place self
ModelApplyAt(h, self, action, keyOrder) ==
    LET m == h.models[self]
        next_state == StateApplyAt(h.objs, m.state, action, keyOrder)
    IN  IF next_state.ret # None
        THEN LET updated_action_history == Clone(next_state.objs, m.action_history)
                 pushed == [updated_action_history.objs EXCEPT
                               ![updated_action_history.addr] = Append(@, action)]
                 goals == Clone(pushed, m.goals)
             IN  [objs |-> goals.objs,
                  models |-> Append(h.models,
                                 [time |-> m.time + action.duration,
                                  state |-> Unwrap(next_state.ret),
                                  goals |-> goals.addr,
                                  action_history |-> updated_action_history.addr]),
                  ret |-> Some(Len(h.models) + 1)]
        ELSE [objs |-> next_state.objs, models |-> h.models, ret |-> None]

\* the actions the successors are derived with
FrameActions == {Action("act", 1, dm) : dm \in DeltaMaps}

FrameStarts == {<<>>, [wood |-> 2]}

InitFrame ==
    /\ model \in {NewModel(st, ApplyGoals) : st \in FrameStarts}
    /\ heap = [objs |-> <<model.state, model.goals, model.action_history>>,
               models |-> <<[time |-> model.time, state |-> 1, goals |-> 2,
                             action_history |-> 3]>>,
               calls |-> <<>>]
    /\ result = None
    /\ pc = "frame"
    /\ algorithm = "Traditional"
    /\ solution = "Best"
    /\ max_depth = 0
    /\ actions = <<>>
    /\ order = <<>>
    /\ frontier = <<>>
    /\ visited = <<>>
    /\ tables = <<>>

\* one "model.apply(action)" on any Model of the tree built so far
ApplyAt ==
    /\ pc = "frame"
    /\ Len(heap.calls) < MaxCalls
    /\ \E self \in 1..Len(heap.models) : \E a \in FrameActions :
       \E ko \in Orders(DOMAIN a.deltas) :
          LET r == ModelApplyAt(heap, self, a, ko)
          IN  /\ heap' = [objs |-> r.objs, models |-> r.models,
                          calls |-> Append(heap.calls,
                                       [self |-> self, action |-> a,
                                        keyOrder |-> ko, ret |-> r.ret])]
              /\ result' = r.ret
    /\ UNCHANGED <<algorithm, solution, max_depth, actions, order, model,
                   frontier, visited, pc, tables>>

NextFrame == ApplyAt

SpecFrame == InitFrame /\ [][NextFrame]_vars

\* C24: apply never modifies its receiver, on success or on failure: through any
\* number of apply calls every Model made so far keeps its state, time, goals and
\* history (the start Model stays as constructed), and every successor is what
\* its parent and its action alone determine, whatever was derived before or
\* after it.
ApplyLeavesReceiver ==
    /\ [][\A i \in 1..Len(heap.models) : Deref(heap', i) = Deref(heap, i)]_vars
    /\ [](pc = "frame" =>
            /\ Deref(heap, 1) = model
            /\ \A c \in 1..Len(heap.calls) :
                  LET call == heap.calls[c]
                      r == ModelApplyIn(Deref(heap, call.self), call.action, call.keyOrder)
                  IN  IF call.ret = None THEN r = None
                      ELSE r = Some(Deref(heap, Unwrap(call.ret))))

\* the start Model has two different successors, a call on it failed after an
\* insert, and one of its successors has a successor of its own
ApplyLeavesReceiverWitness ==
    /\ pc = "frame"
    /\ \E c1, c2, c3 \in 1..Len(heap.calls) :
          /\ heap.calls[c1].self = 1 /\ heap.calls[c1].ret # None
          /\ heap.calls[c2].self = 1 /\ heap.calls[c2].ret = None
          /\ Len(heap.calls[c2].keyOrder) = 2
          /\ heap.calls[c2].action.deltas[heap.calls[c2].keyOrder[1]] > 0
          /\ heap.calls[c3].self # 1 /\ heap.calls[c3].ret # None
          /\ Deref(heap, Unwrap(heap.calls[c3].ret)).state # Deref(heap, 1).state

\* ------------------------------------------------------------ depth bound
\* the memo table a Best search leaves behind: one entry per (state, depth) the
\* recursion was entered with
BestMemo ==
    IF algorithm = "Traditional" THEN BestTotalPlan(actions, order, model, max_depth, <<>>).memo
    ELSE IF algorithm = "Efficient"
    THEN BestEfficiencyPlan(actions, order, model, max_depth, <<>>).memo
    ELSE BestHybridPlan(actions, order, model, max_depth, <<>>).memo

\* C25: a returned plan has at most max_depth actions under all six strategies; no
\* node of the Fast frontier has a path longer than max_depth; and a Best
\* recursion is only ever entered with a remaining depth of 0..max_depth (so it
\* is at most max_depth deep), answering each call with at most that many actions.
PlanWithinDepth ==
    /\ Done => Len(Res.actions) <= max_depth
    /\ \A i \in 1..Len(frontier) : Len(frontier[i].plan) <= max_depth
    /\ (Done /\ solution = "Best") =>
          LET memo == BestMemo
          IN  \A key \in DOMAIN memo :
                  /\ key[2] \in 0..max_depth
                  /\ Len(memo[key].actions) <= key[2]

\* a Best search at least two levels deep that used the whole bound
PlanWithinDepthWitness ==
    /\ Done /\ solution = "Best" /\ max_depth >= 2
    /\ Len(Res.actions) = max_depth
    /\ \E key \in DOMAIN BestMemo : key[2] = 0 /\ key[1] # model.state

\* ------------------------------------------------------------ plan totals
RECURSIVE SumDurations(_)
SumDurations(acts) ==
    IF acts = <<>> THEN 0 ELSE acts[1][2].duration + SumDurations(Tail(acts))

\* C26: under all six strategies the total_time of a returned plan is the sum of
\* the durations of its actions, and is the time of the Model that replaying the
\* plan from the start Model (time 0) ends in.
TotalTimeIsSum ==
    (Done /\ model.time = 0) =>
        LET end == Replay(Res.actions, model)
        IN  /\ Res.total_time = SumDurations(Res.actions)
            /\ end # None
            /\ Unwrap(end).time = Res.total_time

\* a returned plan of two or more actions whose durations differ
TotalTimeIsSumWitness ==
    /\ Done /\ model.time = 0
    /\ Len(Res.actions) >= 2
    /\ Res.actions[1][2].duration # Res.actions[2][2].duration
    /\ Res.total_time >= 3

\* C27: under Fast (all three algorithms), Best/Traditional and Best/Efficient
\* the total_discontentment of a returned plan is calculate_discontentment() of
\* the Model that replaying the plan from the start Model ends in.
TotalDiscontentmentIsFinal ==
    (Done /\ (solution = "Fast" \/ algorithm \in {"Traditional", "Efficient"})) =>
        LET end == Replay(Res.actions, model)
        IN  /\ end # None
            /\ Res.total_discontentment = CalculateDiscontentment(Unwrap(end))

\* a Best/Efficient plan of two or more actions whose final discontentment is
\* neither the start's nor that of the state after its first action
TotalDiscontentmentIsFinalWitness ==
    /\ Done /\ solution = "Best" /\ algorithm = "Efficient"
    /\ Len(Res.actions) >= 2
    /\ Res.total_discontentment # CalculateDiscontentment(model)
    /\ Res.total_discontentment #
           CalculateDiscontentment(Unwrap(Replay(SubSeq(Res.actions, 1, 1), model)))

====
